---- MODULE Spec2Model ----
(***************************************************************************)
(* Model of the California state parks trip planner (main.py).             *)
(*                                                                         *)
(* A run of main() loads the parks file, geocodes the parks still marked   *)
(* "Y", geocodes the home address, fetches the missing drive times,        *)
(* clusters the parks, and writes the map and the report.  The two JSON    *)
(* files (parks.json, drive_times.json) survive from one run to the next.  *)
(*                                                                         *)
(* Representation.                                                         *)
(*  - A Python dict is a function whose DOMAIN is its key set; its         *)
(*    iteration order is the order of AllNames restricted to that set.     *)
(*  - An optional field (absent key or JSON null) is a set with at most    *)
(*    one element: {} is "absent / None", {v} is the value v.              *)
(*  - A park value is a record with tag "Y" (the string "Y") or tag "dict" *)
(*    (a JSON object with lat and, on failure, error).                     *)
(*  - Coordinates lie on one meridian; lat is kept in miles of arc, so the *)
(*    Haversine distance of two parks is the absolute difference of their  *)
(*    lat (dlng = 0 gives a = sin^2(dlat/2), c = |dlat|, distance = R*c).  *)
(***************************************************************************)
EXTENDS Integers, Sequences, FiniteSets, TLC

VARIABLES
    parksFile,    \* contents of res/parks.json
    dtFile,       \* contents of res/drive_times.json ({} read when missing)
    pc,           \* position of the run inside main()
    parks,        \* main's local `parks`
    drive_times,  \* get_drive_times' local `drive_times`
    idx,          \* position of the current for-loop in parks.items()
    updated,      \* the `updated` flag of the current loop
    threshold,    \* threshold_miles passed to cluster_parks
    home_coords,  \* {} or {main's local `home_coords`}
    clusters,     \* main's local `clusters`
    map_markers,  \* park markers put on the map by generate_map
    report,       \* {} or {the report built by generate_report}
    calls,        \* provider calls made by the current run
    written,      \* files written by the current run
    other         \* the locals of a second, suspended run of main()

vars == <<parksFile, dtFile, pc, parks, drive_times, idx, updated, threshold,
          home_coords, clusters, map_markers, report, calls, written, other>>

---------------------------------------------------------------------------
(* Bounds of the model *)

MaxParks == 3

AllNames == <<"A", "B", "C", "D", "E">>

Names == SubSeq(AllNames, 1, MaxParks)

NameSet == {Names[i] : i \in 1..Len(Names)}

\* positions (miles along the meridian) a park can have
Positions == {0, 20, 40, 50}

\* thresholds tried on cluster_parks as a pure function
Thresholds == {-1, 0, 20, 30, 60}

---------------------------------------------------------------------------
(* Program constants *)

CLUSTER_THRESHOLD_MILES == 30

---------------------------------------------------------------------------
(* Values *)

\* the string "Y" of parks.json: not geocoded yet
Unresolved == [tag |-> "Y", lat |-> {}, error |-> {}]

\* {"lat": c, "lng": ...}
Located(c) == [tag |-> "dict", lat |-> {c}, error |-> {}]

\* {"lat": null, "lng": null, "error": msg}
GeoError(msg) == [tag |-> "dict", lat |-> {}, error |-> {msg}]

\* isinstance(coords, dict) and coords.get("lat") is not None
HasCoord(v) == v.tag = "dict" /\ v.lat # {}

\* the value of a present optional field
Val(opt) == CHOOSE x \in opt : TRUE

\* the provider's human-readable text of a duration
DurationText(d) == ToString(d)

\* a successful distance-matrix element
DriveOK(d) ==
    [duration_seconds |-> {d}, duration_text |-> {DurationText(d)},
     distance_text |-> {"miles"}, error |-> {}]

\* {"error": msg}
DriveErr(msg) ==
    [duration_seconds |-> {}, duration_text |-> {},
     distance_text |-> {}, error |-> {msg}]

\* the {} default of drive_times.get(park_name, {})
NoInfo ==
    [duration_seconds |-> {}, duration_text |-> {},
     distance_text |-> {}, error |-> {}]

\* dict.items() / dict.keys(): the keys in iteration order
Keys(d) == SelectSeq(AllNames, LAMBDA k : k \in DOMAIN d)

\* d[k] = v
Put(d, k, v) == [x \in (DOMAIN d) \cup {k} |-> IF x = k THEN v ELSE d[x]]

\* drive_times.get(park_name, {})
InfoOf(dt, p) == IF p \in DOMAIN dt THEN dt[p] ELSE NoInfo

EmptyDict == [x \in {} |-> NoInfo]

---------------------------------------------------------------------------
(* Pure functions of main.py *)

\* Haversine distance in miles of two points of the meridian
haversine_distance(lat1, lat2) ==
    IF lat1 >= lat2 THEN lat1 - lat2 ELSE lat2 - lat1

\* valid_parks: the names with a resolved coordinate, in iteration order
valid_parks(ps) == SelectSeq(Keys(ps), LAMBDA k : HasCoord(ps[k]))

\* ScanOthers measuring the distance from the member added last instead of
\* from the seed
RECURSIVE ScanOthers_Chain(_, _, _, _, _, _)
ScanOthers_Chain(ps, valid, name, threshold_miles, j, st) ==
    IF j > Len(valid) THEN st
    ELSE LET other_name == valid[j]
             last == st.cluster[Len(st.cluster)]
             distance == haversine_distance(Val(ps[last].lat),
                                            Val(ps[other_name].lat))
         IN  IF other_name \in st.assigned
             THEN ScanOthers_Chain(ps, valid, name, threshold_miles, j + 1, st)
             ELSE IF distance <= threshold_miles
             THEN ScanOthers_Chain(ps, valid, name, threshold_miles, j + 1,
                                   [cluster  |-> Append(st.cluster, other_name),
                                    assigned |-> st.assigned \cup {other_name}])
             ELSE ScanOthers_Chain(ps, valid, name, threshold_miles, j + 1, st)

\* the inner for-loop of cluster_parks: every not-yet-assigned park within
\* the threshold of the seed `name` joins its cluster
RECURSIVE ScanOthers(_, _, _, _, _, _)
ScanOthers(ps, valid, name, threshold_miles, j, st) ==
    IF j > Len(valid) THEN st
    ELSE LET other_name == valid[j]
             distance == haversine_distance(Val(ps[name].lat),
                                            Val(ps[other_name].lat))
         IN  IF other_name \in st.assigned
             THEN ScanOthers(ps, valid, name, threshold_miles, j + 1, st)
             ELSE IF distance <= threshold_miles
             THEN ScanOthers(ps, valid, name, threshold_miles, j + 1,
                             [cluster  |-> Append(st.cluster, other_name),
                              assigned |-> st.assigned \cup {other_name}])
             ELSE ScanOthers(ps, valid, name, threshold_miles, j + 1, st)

\* ClusterLoop without its `if name in assigned: continue`
RECURSIVE ClusterLoop_NoSkip(_, _, _, _, _)
ClusterLoop_NoSkip(ps, valid, threshold_miles, i, acc) ==
    IF i > Len(valid) THEN acc.clusters
    ELSE LET name == valid[i]
             st == ScanOthers(ps, valid, name, threshold_miles, 1,
                              [cluster  |-> <<name>>,
                               assigned |-> acc.assigned \cup {name}])
         IN  ClusterLoop_NoSkip(ps, valid, threshold_miles, i + 1,
                                [clusters |-> Append(acc.clusters, st.cluster),
                                 assigned |-> st.assigned])

\* the outer for-loop of cluster_parks
RECURSIVE ClusterLoop(_, _, _, _, _)
ClusterLoop(ps, valid, threshold_miles, i, acc) ==
    IF i > Len(valid) THEN acc.clusters
    ELSE LET name == valid[i]
         IN  IF name \in acc.assigned
             THEN ClusterLoop(ps, valid, threshold_miles, i + 1, acc)
             ELSE LET st == ScanOthers(ps, valid, name, threshold_miles, 1,
                                       [cluster  |-> <<name>>,
                                        assigned |-> acc.assigned \cup {name}])
                  IN  ClusterLoop(ps, valid, threshold_miles, i + 1,
                                  [clusters |-> Append(acc.clusters, st.cluster),
                                   assigned |-> st.assigned])

cluster_parks(ps, threshold_miles) ==
    ClusterLoop(ps, valid_parks(ps), threshold_miles, 1,
                [clusters |-> <<>>, assigned |-> {}])

\* categorize_trip with <= for < at both limits
categorize_trip_Inclusive(duration_seconds) ==
    IF duration_seconds = {} THEN "Unknown"
    ELSE IF Val(duration_seconds) <= 3 * 3600 THEN "Day Trip"
    ELSE IF Val(duration_seconds) <= 5 * 3600 THEN "Weekend Trip"
    ELSE "Multi-day Trip"

\* hours = duration_seconds / 3600; hours < h  iff  duration_seconds < h*3600
categorize_trip(duration_seconds) ==
    IF duration_seconds = {} THEN "Unknown"
    ELSE IF Val(duration_seconds) < 3 * 3600 THEN "Day Trip"
    ELSE IF Val(duration_seconds) < 5 * 3600 THEN "Weekend Trip"
    ELSE "Multi-day Trip"

get_marker_color(duration_seconds) ==
    IF duration_seconds = {} THEN "gray"
    ELSE IF Val(duration_seconds) < 2 * 3600 THEN "green"
    ELSE IF Val(duration_seconds) < 4 * 3600 THEN "orange"
    ELSE "red"

\* the markers generate_map adds: one per park with a coordinate
generate_map(ps, dt) ==
    [p \in {k \in DOMAIN ps : HasCoord(ps[k])} |->
        get_marker_color(InfoOf(dt, p).duration_seconds)]

\* info.get(text_field, "N/A")
TextOrNA(opt) == IF opt = {} THEN "N/A" ELSE Val(opt)

\* KeyLess with a missing duration sorting first (a default of 0, not inf)
KeyLess_MissingFirst(a, b) == b # {} /\ (a = {} \/ Val(a) < Val(b))

\* x[1] < y[1] on the sort keys, float("inf") standing for a missing duration
KeyLess(a, b) == a # {} /\ (b = {} \/ Val(a) < Val(b))

\* list.sort(key=...) is stable: x goes after every element whose key is not
\* greater than its own
RECURSIVE InsertSorted(_, _)
InsertSorted(s, x) ==
    IF s = <<>> THEN <<x>>
    ELSE IF KeyLess(x.duration, Head(s).duration) THEN <<x>> \o s
    ELSE <<Head(s)>> \o InsertSorted(Tail(s), x)

RECURSIVE StableSort(_)
StableSort(s) ==
    IF s = <<>> THEN <<>>
    ELSE InsertSorted(StableSort(SubSeq(s, 1, Len(s) - 1)), s[Len(s)])

\* sorted_parks of generate_report
SortedParks(ps, dt) ==
    LET ks == Keys(ps)
        unsorted == [i \in 1..Len(ks) |->
                        [park_name |-> ks[i],
                         duration  |-> InfoOf(dt, ks[i]).duration_seconds,
                         info      |-> InfoOf(dt, ks[i])]]
    IN  StableSort(unsorted)

\* categories[category]
CategoryList(ps, dt, category) ==
    SelectSeq(SortedParks(ps, dt),
              LAMBDA e : categorize_trip(e.info.duration_seconds) = category)

SummaryOrder == <<"Day Trip", "Weekend Trip", "Multi-day Trip", "Unknown">>

\* the detailed listings looping over all four categories
DetailOrder_WithUnknown == SummaryOrder

DetailOrder == <<"Day Trip", "Weekend Trip", "Multi-day Trip">>

\* the "  {category}: {count} parks" lines
SummaryLines(ps, dt) ==
    LET all == [i \in 1..Len(SummaryOrder) |->
                   [category |-> SummaryOrder[i],
                    count    |-> Len(CategoryList(ps, dt, SummaryOrder[i]))]]
    IN  SelectSeq(all, LAMBDA l : l.count > 0)

\* the detailed listings
DetailSections(ps, dt) ==
    LET all == [i \in 1..Len(DetailOrder) |->
                   LET members == CategoryList(ps, dt, DetailOrder[i])
                   IN  [category |-> DetailOrder[i],
                        entries  |-> [j \in 1..Len(members) |->
                            [park_name |-> members[j].park_name,
                             duration  |-> TextOrNA(members[j].info.duration_text),
                             distance  |-> TextOrNA(members[j].info.distance_text)]]]]
    IN  SelectSeq(all, LAMBDA sec : sec.entries # <<>>)

\* any(categorize_trip(...) == "Multi-day Trip" for p in c)
HasMultiDay(dt, c) ==
    \E j \in 1..Len(c) :
        categorize_trip(InfoOf(dt, c[j]).duration_seconds) = "Multi-day Trip"

\* multi_day_clusters with all() for any()
multi_day_clusters_All(dt, cl) ==
    SelectSeq(cl, LAMBDA c : Len(c) > 1 /\ \A j \in 1..Len(c) :
        categorize_trip(InfoOf(dt, c[j]).duration_seconds) = "Multi-day Trip")

multi_day_clusters(dt, cl) ==
    SelectSeq(cl, LAMBDA c : Len(c) > 1 /\ HasMultiDay(dt, c))

\* the "Cluster {i}: ({len(cluster)} parks)" blocks
ClusterLines(dt, cl) ==
    LET mdc == multi_day_clusters(dt, cl)
    IN  [i \in 1..Len(mdc) |->
            [number  |-> i,
             size    |-> Len(mdc[i]),
             members |-> [j \in 1..Len(mdc[i]) |->
                             [park_name |-> mdc[i][j],
                              duration  |-> TextOrNA(InfoOf(dt, mdc[i][j]).duration_text)]]]]

generate_report(ps, dt, cl) ==
    [total    |-> Cardinality(DOMAIN ps),
     summary  |-> SummaryLines(ps, dt),
     detailed |-> DetailSections(ps, dt),
     clusters |-> ClusterLines(dt, cl)]

---------------------------------------------------------------------------
(* Inputs: file contents at the start and provider answers *)

\* coordinates the geocoding provider answers with
GeocodeResults == {20}

\* position the geocoding provider answers with for MY_ADDRESS
HomeResults == {0}

\* durations the distance provider answers with
ProviderDurations == {21600}

\* str(e) of an exception raised by a provider call
ProviderErrors == {"Timeout"}

\* values a park can have in parks.json when a run starts
RunParkValues == {Unresolved, GeoError("Not found"), Located(0)}

\* entries drive_times.json can hold when a run starts
RunCachedEntries == {DriveErr("Route not found"), DriveOK(7200)}

\* all dicts with keys among `keys` and values in `values`
DictsOver(keys, values) == UNION {[S -> values] : S \in SUBSET keys}

\* all dicts whose keys are the first n names, for every n
PrefixDicts(values) ==
    UNION {[{Names[i] : i \in 1..n} -> values] : n \in 0..MaxParks}

---------------------------------------------------------------------------
(* A run of main() *)

\* a run of main() that has not started: what `other` holds while a single
\* process runs the tool
IdleRun ==
    [run |-> 2, pc |-> "idle", parks |-> EmptyDict, drive_times |-> EmptyDict,
     idx |-> 1, updated |-> FALSE, home_coords |-> {}, clusters |-> <<>>,
     map_markers |-> EmptyDict, report |-> {}, calls |-> {}, written |-> {}]

AtStart == pc \in {"idle", "done", "aborted", "no_key"}

\* main(): GOOGLE_MAPS_API_KEY is not set, return before anything is read
MainNoKey ==
    /\ AtStart
    /\ pc' = "no_key"
    /\ parks' = EmptyDict /\ drive_times' = EmptyDict
    /\ idx' = 1 /\ updated' = FALSE
    /\ clusters' = <<>> /\ map_markers' = EmptyDict /\ report' = {}
    /\ calls' = {} /\ written' = {} /\ home_coords' = {}
    /\ UNCHANGED <<parksFile, dtFile, threshold, other>>

\* main(): parks = load_parks(), then geocode_parks starts its loop
LoadParks ==
    /\ AtStart
    /\ pc' = "geocode_parks"
    /\ parks' = parksFile
    /\ drive_times' = EmptyDict
    /\ idx' = 1 /\ updated' = FALSE
    /\ clusters' = <<>> /\ map_markers' = EmptyDict /\ report' = {}
    /\ calls' = {} /\ written' = {} /\ home_coords' = {}
    /\ UNCHANGED <<parksFile, dtFile, threshold, other>>

InLoop(at) == pc = at /\ idx <= Len(Keys(parks))

Current == Keys(parks)[idx]

\* what a geocode_parks iteration does to the park, given the new value
GeocodeStore(value) ==
    /\ parks' = [parks EXCEPT ![Current] = value]
    /\ updated' = TRUE
    /\ calls' = calls \cup {<<"geocode", Current>>}
    /\ idx' = idx + 1
    /\ UNCHANGED <<parksFile, dtFile, pc, drive_times, threshold, other, home_coords, clusters,
                   map_markers, report, written>>

\* geocode_parks: value != "Y"
GeocodeSkip ==
    /\ InLoop("geocode_parks")
    /\ parks[Current] # Unresolved
    /\ idx' = idx + 1
    /\ UNCHANGED <<parksFile, dtFile, pc, parks, drive_times, updated,
                   threshold, other, home_coords, clusters, map_markers, report, calls, written>>

\* geocode_parks: gmaps.geocode returns a result
GeocodeFound ==
    /\ InLoop("geocode_parks")
    /\ parks[Current] = Unresolved
    /\ \E c \in GeocodeResults : GeocodeStore(Located(c))

\* geocode_parks: gmaps.geocode returns an empty result
GeocodeNotFound ==
    /\ InLoop("geocode_parks")
    /\ parks[Current] = Unresolved
    /\ GeocodeStore(GeoError("Not found"))

\* geocode_parks without its try/except: the exception leaves main
GeocodeRaise_Propagates ==
    /\ InLoop("geocode_parks")
    /\ parks[Current] = Unresolved
    /\ calls' = calls \cup {<<"geocode", Current>>}
    /\ pc' = "aborted"
    /\ UNCHANGED <<parksFile, dtFile, parks, drive_times, idx, updated,
                   threshold, other, home_coords, clusters, map_markers, report, written>>

\* geocode_parks: gmaps.geocode raises
GeocodeRaise ==
    /\ InLoop("geocode_parks")
    /\ parks[Current] = Unresolved
    /\ \E e \in ProviderErrors : GeocodeStore(GeoError(e))

\* geocode_parks: the loop is over; save_parks if updated
GeocodeSave ==
    /\ pc = "geocode_parks"
    /\ idx > Len(Keys(parks))
    /\ IF updated
       THEN parksFile' = parks /\ written' = written \cup {"parks"}
       ELSE UNCHANGED <<parksFile, written>>
    /\ pc' = "geocode_home"
    /\ UNCHANGED <<dtFile, parks, drive_times, idx, updated, threshold, other, home_coords,
                   clusters, map_markers, report, calls>>

\* geocode_home: a result is found
GeocodeHomeFound ==
    /\ pc = "geocode_home"
    /\ calls' = calls \cup {<<"geocode", "home">>}
    /\ pc' = "load_drive_times"
    /\ \E h \in HomeResults : home_coords' = {h}
    /\ UNCHANGED <<parksFile, dtFile, parks, drive_times, idx, updated,
                   threshold, other, clusters, map_markers, report, written>>

\* geocode_home returning nothing instead of raising
GeocodeHomeFail_Continues ==
    /\ pc = "geocode_home"
    /\ calls' = calls \cup {<<"geocode", "home">>}
    /\ pc' = "load_drive_times"
    /\ UNCHANGED <<parksFile, dtFile, parks, drive_times, idx, updated,
                   threshold, other, home_coords, clusters, map_markers, report, written>>

\* geocode_home: no result (ValueError) or the call raises; main does not
\* catch either
GeocodeHomeFail ==
    /\ pc = "geocode_home"
    /\ calls' = calls \cup {<<"geocode", "home">>}
    /\ pc' = "aborted"
    /\ UNCHANGED <<parksFile, dtFile, parks, drive_times, idx, updated,
                   threshold, other, home_coords, clusters, map_markers, report, written>>

\* get_drive_times: drive_times = load_drive_times(); updated = False
LoadDriveTimes ==
    /\ pc = "load_drive_times"
    /\ drive_times' = dtFile
    /\ idx' = 1 /\ updated' = FALSE
    /\ pc' = "get_drive_times"
    /\ UNCHANGED <<parksFile, dtFile, parks, threshold, other, home_coords, clusters,
                   map_markers, report, calls, written>>

DriveNext ==
    /\ idx' = idx + 1
    /\ UNCHANGED <<parksFile, dtFile, pc, parks, drive_times, updated,
                   threshold, other, home_coords, clusters, map_markers, report, calls, written>>

\* get_drive_times: park_name in drive_times
DriveSkipCached ==
    /\ InLoop("get_drive_times")
    /\ Current \in DOMAIN drive_times
    /\ DriveNext

\* get_drive_times: the park has no valid coordinates
DriveSkipNoCoords ==
    /\ InLoop("get_drive_times")
    /\ Current \notin DOMAIN drive_times
    /\ ~HasCoord(parks[Current])
    /\ DriveNext

\* what a get_drive_times iteration stores after a provider call
DriveStore(entry) ==
    /\ drive_times' = Put(drive_times, Current, entry)
    /\ updated' = TRUE
    /\ calls' = calls \cup {<<"distance_matrix", Current>>}
    /\ idx' = idx + 1
    /\ UNCHANGED <<parksFile, dtFile, pc, parks, threshold, other, home_coords, clusters,
                   map_markers, report, written>>

\* the cache check letting error entries through
NeedsDriveTime_RetryErrors ==
    /\ InLoop("get_drive_times")
    /\ IF Current \in DOMAIN drive_times
       THEN drive_times[Current].error # {}
       ELSE TRUE
    /\ HasCoord(parks[Current])

NeedsDriveTime ==
    /\ InLoop("get_drive_times")
    /\ Current \notin DOMAIN drive_times
    /\ HasCoord(parks[Current])

\* get_drive_times: element status is OK
DriveFound == NeedsDriveTime /\ \E d \in ProviderDurations : DriveStore(DriveOK(d))

\* get_drive_times: element status is not OK
DriveRouteNotFound == NeedsDriveTime /\ DriveStore(DriveErr("Route not found"))

\* get_drive_times: the provider call raises
DriveRaise == NeedsDriveTime /\ \E e \in ProviderErrors : DriveStore(DriveErr(e))

\* save_drive_times keeping what the file holds and adding only new keys
DriveSave_Merge ==
    /\ pc = "get_drive_times"
    /\ idx > Len(Keys(parks))
    /\ IF updated
       THEN /\ dtFile' = [p \in (DOMAIN dtFile) \cup (DOMAIN drive_times) |->
                             IF p \in DOMAIN dtFile THEN dtFile[p] ELSE drive_times[p]]
            /\ written' = written \cup {"drive_times"}
       ELSE UNCHANGED <<dtFile, written>>
    /\ pc' = "cluster"
    /\ UNCHANGED <<parksFile, parks, drive_times, idx, updated, threshold, other,
                   home_coords, clusters, map_markers, report, calls>>

\* get_drive_times: the loop is over; save_drive_times if updated
DriveSave ==
    /\ pc = "get_drive_times"
    /\ idx > Len(Keys(parks))
    /\ IF updated
       THEN dtFile' = drive_times /\ written' = written \cup {"drive_times"}
       ELSE UNCHANGED <<dtFile, written>>
    /\ pc' = "cluster"
    /\ UNCHANGED <<parksFile, parks, drive_times, idx, updated, threshold, other, home_coords,
                   clusters, map_markers, report, calls>>

\* main(): clusters = cluster_parks(parks)
ClusterParks ==
    /\ pc = "cluster"
    /\ clusters' = cluster_parks(parks, threshold)
    /\ pc' = "map"
    /\ UNCHANGED <<parksFile, dtFile, parks, drive_times, idx, updated,
                   threshold, other, home_coords, map_markers, report, calls, written>>

\* main(): generate_map(home_coords, parks, drive_times)
GenerateMap ==
    /\ pc = "map"
    /\ map_markers' = generate_map(parks, drive_times)
    /\ written' = written \cup {"map"}
    /\ pc' = "report"
    /\ UNCHANGED <<parksFile, dtFile, parks, drive_times, idx, updated,
                   threshold, other, home_coords, clusters, report, calls>>

\* main(): generate_report(parks, drive_times, clusters)
GenerateReport ==
    /\ pc = "report"
    /\ report' = {generate_report(parks, drive_times, clusters)}
    /\ written' = written \cup {"report"}
    /\ pc' = "done"
    /\ UNCHANGED <<parksFile, dtFile, parks, drive_times, idx, updated,
                   threshold, other, home_coords, clusters, map_markers, calls>>

Init ==
    /\ parksFile \in PrefixDicts(RunParkValues)
    /\ dtFile \in DictsOver(NameSet, RunCachedEntries)
    /\ pc = "idle"
    /\ parks = EmptyDict /\ drive_times = EmptyDict
    /\ idx = 1 /\ updated = FALSE
    /\ threshold = CLUSTER_THRESHOLD_MILES
    /\ home_coords = {}
    /\ clusters = <<>> /\ map_markers = EmptyDict /\ report = {}
    /\ calls = {} /\ written = {}
    /\ other = IdleRun

Next ==
    \/ MainNoKey
    \/ LoadParks
    \/ GeocodeSkip
    \/ GeocodeFound
    \/ GeocodeNotFound
    \/ GeocodeRaise
    \/ GeocodeSave
    \/ GeocodeHomeFound
    \/ GeocodeHomeFail
    \/ LoadDriveTimes
    \/ DriveSkipCached
    \/ DriveSkipNoCoords
    \/ DriveFound
    \/ DriveRouteNotFound
    \/ DriveRaise
    \/ DriveSave
    \/ ClusterParks
    \/ GenerateMap
    \/ GenerateReport

Spec == Init /\ [][Next]_vars

---------------------------------------------------------------------------
(* The clustering and report functions on their own: the run stands right   *)
(* before main's call of cluster_parks, with the arguments drawn from       *)
(* bounded sets.                                                            *)

NextCore == ClusterParks \/ GenerateMap \/ GenerateReport

BeforeClustering ==
    /\ pc = "cluster"
    /\ parksFile = parks /\ dtFile = drive_times
    /\ idx = 1 /\ updated = FALSE
    /\ home_coords \in {{h} : h \in HomeResults}
    /\ clusters = <<>> /\ map_markers = EmptyDict /\ report = {}
    /\ calls = {} /\ written = {}
    /\ other = IdleRun

\* park values given to cluster_parks
ClusterParkValues ==
    {Unresolved, GeoError("Not found")} \cup {Located(c) : c \in Positions}

InitCluster ==
    /\ parks \in PrefixDicts(ClusterParkValues)
    /\ drive_times = EmptyDict
    /\ threshold \in Thresholds
    /\ BeforeClustering

SpecCluster == InitCluster /\ [][NextCore]_vars

\* park values and drive-time entries given to generate_report
ReportParkValues == {Unresolved, Located(0), Located(40)}

ReportEntries ==
    {DriveErr("Route not found"), DriveOK(7200), DriveOK(14400), DriveOK(21600),
     [DriveOK(21600) EXCEPT !.duration_text = {}]}

InitReport ==
    /\ parks \in PrefixDicts(ReportParkValues)
    /\ drive_times \in DictsOver(NameSet, ReportEntries)
    /\ threshold = CLUSTER_THRESHOLD_MILES
    /\ BeforeClustering

SpecReport == InitReport /\ [][NextCore]_vars

\* durations given to categorize_trip: every multiple of ten minutes up to
\* seven hours, with the second before and the second after
DurationInputs ==
    {d \in 0..25201 : d % 600 \in {0, 1, 599}}

InitCategorize ==
    /\ parks = [x \in {"A"} |-> Located(0)]
    /\ drive_times \in DictsOver({"A"}, {DriveOK(d) : d \in DurationInputs})
    /\ threshold = CLUSTER_THRESHOLD_MILES
    /\ BeforeClustering

SpecCategorize == InitCategorize /\ [][NextCore]_vars

---------------------------------------------------------------------------
(* Claims *)

Clustered == pc \in {"map", "report", "done"}

\* number of places of `clusters` that hold p
Occurrences(p) ==
    Cardinality({ij \in {<<i, j>> : i \in 1..Len(clusters), j \in 1..MaxParks + 2} :
                    /\ ij[2] <= Len(clusters[ij[1]])
                    /\ clusters[ij[1]][ij[2]] = p})

AllNameSet == {AllNames[i] : i \in 1..Len(AllNames)}

\* C1: cluster_parks returns a partition of the parks with a resolved
\* coordinate: each of them is at exactly one place of exactly one cluster,
\* and a park that is "Y" or has lat null is in no cluster.
C1_ClustersPartitionValidParks ==
    Clustered =>
        \A p \in AllNameSet :
            Occurrences(p) =
                IF p \in DOMAIN parks /\ HasCoord(parks[p]) THEN 1 ELSE 0

\* C1 witness: a cluster of two parks, the first park of the input being one
\* whose geocoding failed
C1_Witness ==
    /\ Clustered
    /\ \E i \in 1..Len(clusters) : Len(clusters[i]) = 2
    /\ "A" \in DOMAIN parks /\ parks["A"] = GeoError("Not found")

\* place of a name in the iteration order
Pos(p) == CHOOSE i \in 1..Len(AllNames) : AllNames[i] = p

Seed(i) == clusters[i][1]

Dist(p, q) == haversine_distance(Val(parks[p].lat), Val(parks[q].lat))

\* A, B, C in a row, 20 miles apart
ExampleABC == ("A" :> Located(0)) @@ ("B" :> Located(20)) @@ ("C" :> Located(40))

\* C2: the first member of a cluster is its seed; seeds and the members of
\* a cluster are in iteration order; a park is in the cluster of the
\* earliest seed within the threshold (<=) of it, and is a seed itself when
\* no earlier seed is; distance to a non-seed member plays no part.  Input
\* [A,B,C] at 0, 20, 40 miles with threshold 30 gives [A,B] then [C].
C2_SeedBasedClusters ==
    Clustered =>
        /\ \A i \in 1..Len(clusters) :
              /\ \A k \in 1..Len(clusters) : i < k => Pos(Seed(i)) < Pos(Seed(k))
              /\ \A j \in 1..Len(clusters[i]) :
                    LET p == clusters[i][j]
                    IN  /\ j > 1 => /\ Dist(Seed(i), p) <= threshold
                                    /\ Pos(clusters[i][j - 1]) < Pos(p)
                        /\ \A k \in 1..(i - 1) : Dist(Seed(k), p) > threshold
        /\ (parks = ExampleABC /\ threshold = 30)
           => clusters = << <<"A", "B">>, <<"C">> >>

\* C2 witness: the A, B, C example, C within the threshold of B but not of
\* the seed A
C2_Witness ==
    /\ Clustered
    /\ threshold = 30
    /\ parks = ExampleABC
    /\ clusters = << <<"A", "B">>, <<"C">> >>

\* the category the policy names for a duration
PolicyCategory(duration_seconds) ==
    CASE duration_seconds = {} -> "Unknown"
      [] duration_seconds # {} /\ Val(duration_seconds) < 10800 -> "Day Trip"
      [] duration_seconds # {} /\ Val(duration_seconds) >= 10800
                               /\ Val(duration_seconds) < 18000 -> "Weekend Trip"
      [] OTHER -> "Multi-day Trip"

\* C3: categorize_trip maps a missing duration to Unknown, a duration below
\* 10800 s to Day Trip, from 10800 s to below 18000 s to Weekend Trip, and
\* from 18000 s on to Multi-day Trip; the report counts the park under that
\* category.
C3_CategorizeTrip ==
    \A p \in DOMAIN parks :
        LET d == InfoOf(drive_times, p).duration_seconds
        IN  /\ categorize_trip(d) = PolicyCategory(d)
            /\ (pc = "done" /\ Cardinality(DOMAIN parks) = 1) =>
                  Val(report).summary = <<[category |-> PolicyCategory(d), count |-> 1]>>

\* C3 witness: a park exactly three hours away reported as a Weekend Trip
C3_Witness ==
    /\ pc = "done"
    /\ DOMAIN parks = {"A"}
    /\ InfoOf(drive_times, "A").duration_seconds = {10800}
    /\ Val(report).summary = <<[category |-> "Weekend Trip", count |-> 1]>>

Range(seq) == {seq[i] : i \in 1..Len(seq)}

\* names listed in the detailed sections of a report
DetailedNames(r) ==
    UNION {{e.park_name : e \in Range(sec.entries)} : sec \in Range(r.detailed)}

\* the count the summary shows for a category, 0 when it has no line
SummaryCount(r, category) ==
    IF \E l \in Range(r.summary) : l.category = category
    THEN (CHOOSE l \in Range(r.summary) : l.category = category).count
    ELSE 0

Duration(p) == InfoOf(drive_times, p).duration_seconds

NoCoordParks == {p \in DOMAIN parks : ~HasCoord(parks[p])}

\* C4: in every run, whatever the two files hold at the start, a park with
\* no resolved coordinate is in no cluster, is listed in no detailed section
\* and is counted under Unknown.
C4_NoCoordinateMeansUnknown ==
    pc = "done" =>
        /\ \A p \in NoCoordParks :
              /\ Occurrences(p) = 0
              /\ p \notin DetailedNames(Val(report))
        /\ SummaryCount(Val(report), "Unknown") >= Cardinality(NoCoordParks)

\* a step that calls the provider `kind` for park p
Calls(kind, p) == <<kind, p>> \in calls' \ calls

IsGeoError(v) == v.tag = "dict" /\ v.lat = {}

\* C5: an entry of the drive-time cache stays as it is and its park gets no
\* distance lookup; an error marker in the parks file stays as it is and
\* its park gets neither a geocoding nor a distance lookup; in every step of
\* every run.
C5_CachedEntriesArePermanent ==
    [][/\ \A p \in DOMAIN dtFile :
             /\ p \in DOMAIN dtFile' /\ dtFile'[p] = dtFile[p]
             /\ ~Calls("distance_matrix", p)
       /\ \A p \in DOMAIN parksFile :
             IsGeoError(parksFile[p]) =>
                 /\ p \in DOMAIN parksFile' /\ parksFile'[p] = parksFile[p]
                 /\ ~Calls("geocode", p)
                 /\ ~Calls("distance_matrix", p)]_vars

\* C5 witness: a finished run that found a cached route error for one park
\* and a geocoding error marker for another and looked up neither
C5_Witness ==
    /\ pc = "done"
    /\ calls = {<<"geocode", "home">>}
    /\ written = {"map", "report"}
    /\ \E p \in DOMAIN parks :
          /\ HasCoord(parks[p])
          /\ p \in DOMAIN dtFile /\ dtFile[p].error # {}
    /\ \E q \in DOMAIN parksFile : IsGeoError(parksFile[q])

\* indices of the clusters the report has to emit
MultiDayIndices ==
    {i \in 1..Len(clusters) :
        /\ Len(clusters[i]) > 1
        /\ \E j \in 1..Len(clusters[i]) :
              PolicyCategory(Duration(clusters[i][j])) = "Multi-day Trip"}

\* the k-th of them
MultiDayIndex(k) ==
    CHOOSE i \in MultiDayIndices :
        Cardinality({x \in MultiDayIndices : x <= i}) = k

InReportOrder(a, b) ==
    \/ Duration(a) # {} /\ Duration(b) = {}
    \/ Duration(a) # {} /\ Duration(b) # {} /\ Val(Duration(a)) < Val(Duration(b))
    \/ Duration(a) = Duration(b) /\ Pos(a) < Pos(b)

\* C7: sorted_parks holds every park once, by duration ascending, parks
\* with no duration last, input order kept among equal or missing durations;
\* every detailed section lists its parks in that order.
C7_SortedByDuration ==
    pc = "done" =>
        LET sorted == SortedParks(parks, drive_times)
        IN  /\ Len(sorted) = Cardinality(DOMAIN parks)
            /\ {e.park_name : e \in Range(sorted)} = DOMAIN parks
            /\ \A i, j \in 1..Len(sorted) :
                  i < j => InReportOrder(sorted[i].park_name, sorted[j].park_name)
            /\ \A sec \in Range(Val(report).detailed) :
                  \A i, j \in 1..Len(sec.entries) :
                      i < j => InReportOrder(sec.entries[i].park_name,
                                             sec.entries[j].park_name)

\* C7 witness: A has no duration, B and C have the same one; the section
\* lists B before C
C7_Witness ==
    /\ pc = "done"
    /\ DOMAIN parks = {"A", "B", "C"}
    /\ Duration("A") = {} /\ Duration("B") = {7200} /\ Duration("C") = {7200}
    /\ Len(Val(report).detailed) = 1
    /\ Val(report).detailed[1].entries[1].park_name = "B"
    /\ Val(report).detailed[1].entries[2].park_name = "C"

CategoryRank(category) ==
    CASE category = "Day Trip" -> 1
      [] category = "Weekend Trip" -> 2
      [] category = "Multi-day Trip" -> 3
      [] category = "Unknown" -> 4

ParksOfCategory(category) ==
    {p \in DOMAIN parks : PolicyCategory(Duration(p)) = category}

\* X: 2 h, Y: 6 h, Z: no duration (as A, B, C)
ExampleXYZ ==
    /\ DOMAIN parks = {"A", "B", "C"}
    /\ Duration("A") = {7200} /\ Duration("B") = {21600} /\ Duration("C") = {}

\* C8: the summary has one line per category with at least one park, in the
\* order Day Trip, Weekend Trip, Multi-day Trip, Unknown, with its count;
\* the detailed sections are the non-empty ones of Day Trip, Weekend Trip
\* and Multi-day Trip, in that order, each with exactly its parks; a park
\* categorized Unknown is in none.  Parks X: 2 h, Y: 6 h, Z: none give
\* Day Trip 1, Multi-day Trip 1, Unknown 1.
C8_SummaryAndSections ==
    pc = "done" =>
        LET r == Val(report)
        IN  /\ {l.category : l \in Range(r.summary)} =
                  {c \in {"Day Trip", "Weekend Trip", "Multi-day Trip", "Unknown"} :
                      ParksOfCategory(c) # {}}
            /\ \A l \in Range(r.summary) :
                  l.count = Cardinality(ParksOfCategory(l.category))
            /\ \A i, j \in 1..Len(r.summary) :
                  i < j => CategoryRank(r.summary[i].category)
                               < CategoryRank(r.summary[j].category)
            /\ {sec.category : sec \in Range(r.detailed)} =
                  {c \in {"Day Trip", "Weekend Trip", "Multi-day Trip"} :
                      ParksOfCategory(c) # {}}
            /\ \A i, j \in 1..Len(r.detailed) :
                  i < j => CategoryRank(r.detailed[i].category)
                               < CategoryRank(r.detailed[j].category)
            /\ \A sec \in Range(r.detailed) :
                  /\ {e.park_name : e \in Range(sec.entries)} = ParksOfCategory(sec.category)
                  /\ Len(sec.entries) = Cardinality(ParksOfCategory(sec.category))
            /\ DetailedNames(r) \cap ParksOfCategory("Unknown") = {}
            /\ ExampleXYZ =>
                  /\ r.summary = <<[category |-> "Day Trip", count |-> 1],
                                   [category |-> "Multi-day Trip", count |-> 1],
                                   [category |-> "Unknown", count |-> 1]>>
                  /\ "C" \notin DetailedNames(r)

\* C8 witness: the report of the X, Y, Z example
C8_Witness ==
    /\ pc = "done"
    /\ ExampleXYZ
    /\ SummaryCount(Val(report), "Unknown") = 1
    /\ DetailedNames(Val(report)) = {"A", "B"}

DistanceLookups == {c \in calls : c[1] = "distance_matrix"}

\* C9 as stated: a run that ends in the home-address failure has made no
\* drive-time lookup and has written no map, report or cache file.
C9_NoFileWrittenOnHomeFailure ==
    pc = "aborted" => DistanceLookups = {} /\ written = {}

\* C9 amended: while the home address is not geocoded the run is at or
\* before geocode_home or has ended; it has made no drive-time lookup and
\* has written no map, no report and no drive-time cache; only the parks
\* file may have been rewritten by geocode_parks.
C9_HomeFailureStopsRun ==
    home_coords = {} =>
        /\ pc \in {"idle", "no_key", "geocode_parks", "geocode_home", "aborted"}
        /\ DistanceLookups = {}
        /\ written \subseteq {"parks"}
        /\ clusters = <<>> /\ report = {}

\* C9 witness: the run ended in the home-address failure after it saved the
\* parks file
C9_Witness ==
    /\ pc = "aborted"
    /\ home_coords = {}
    /\ <<"geocode", "home">> \in calls
    /\ written = {"parks"}

\* a step in which the geocoding of park p fails
GeocodeFailedAt(p) == Calls("geocode", p) /\ ~HasCoord(parks'[p])

\* a step in which the drive-time lookup of park p fails
DriveFailedAt(p) ==
    Calls("distance_matrix", p) /\ InfoOf(drive_times', p).duration_seconds = {}

\* C10: a failed lookup of a park stores an error marker for that park,
\* leaves every other entry alone and moves the loop to the next park; when
\* the run is past the lookups no park is left "Y" and every park with a
\* coordinate has a drive-time entry; a finished run has written its report.
C10_FailureIsLocal ==
    /\ [][\A p \in DOMAIN parks :
             /\ GeocodeFailedAt(p) =>
                   /\ IsGeoError(parks'[p]) /\ parks'[p].error # {}
                   /\ DOMAIN parks' = DOMAIN parks
                   /\ \A q \in DOMAIN parks \ {p} : parks'[q] = parks[q]
                   /\ drive_times' = drive_times
                   /\ pc' = pc /\ idx' = idx + 1
             /\ DriveFailedAt(p) =>
                   /\ InfoOf(drive_times', p).error # {}
                   /\ \A q \in DOMAIN drive_times :
                         q \in DOMAIN drive_times' /\ drive_times'[q] = drive_times[q]
                   /\ parks' = parks
                   /\ pc' = pc /\ idx' = idx + 1]_vars
    /\ [](pc \in {"cluster", "map", "report", "done"} =>
             \A p \in DOMAIN parks :
                 /\ parks[p] # Unresolved
                 /\ HasCoord(parks[p]) => p \in DOMAIN drive_times)
    /\ [](pc = "done" => report # {} /\ {"map", "report"} \subseteq written)

\* C10 witness: the geocoding of A raised, B was geocoded after it, the
\* drive-time lookup of B raised, C was looked up after it, and the run
\* finished
C10_Witness ==
    /\ pc = "done"
    /\ DOMAIN parks = {"A", "B", "C"}
    /\ parks["A"] = GeoError("Timeout")
    /\ <<"geocode", "B">> \in calls
    /\ InfoOf(drive_times, "B") = DriveErr("Timeout")
    /\ <<"distance_matrix", "C">> \in calls
    /\ clusters # <<>> /\ report # {}

---------------------------------------------------------------------------
(* Two concurrent runs of main().  Each is a process of its own with its    *)
(* own locals; they share the two files.  The variables pc, parks, ...      *)
(* hold the locals of the process that is running and `other` those of the  *)
(* one that is not; a switch of the processor exchanges them.               *)

MaxRaceParks == 1

\* the run that is on the processor
RunningRun == 3 - other.run

\* the next step of the running run reads or writes a file (or starts a run)
AtFileAccess ==
    \/ AtStart
    \/ pc = "geocode_parks" /\ idx > Len(Keys(parks))
    \/ pc = "load_drive_times"
    \/ pc = "get_drive_times" /\ idx > Len(Keys(parks))

\* the operating system takes the processor from one run and gives it to
\* the other.  The steps of a run between two file accesses touch its own
\* locals only and commute with every step of the other run, so switching
\* right before the file accesses gives every interleaving of the accesses.
Switch ==
    /\ AtFileAccess
    /\ other' = [run |-> RunningRun, pc |-> pc, parks |-> parks,
                 drive_times |-> drive_times, idx |-> idx, updated |-> updated,
                 home_coords |-> home_coords, clusters |-> clusters,
                 map_markers |-> map_markers, report |-> report,
                 calls |-> calls, written |-> written]
    /\ pc' = other.pc
    /\ parks' = other.parks
    /\ drive_times' = other.drive_times
    /\ idx' = other.idx
    /\ updated' = other.updated
    /\ home_coords' = other.home_coords
    /\ clusters' = other.clusters
    /\ map_markers' = other.map_markers
    /\ report' = other.report
    /\ calls' = other.calls
    /\ written' = other.written
    /\ UNCHANGED <<parksFile, dtFile, threshold>>

RaceNameSet == {AllNames[i] : i \in 1..MaxRaceParks}

InitRace ==
    /\ parksFile \in [RaceNameSet -> {Unresolved, Located(0)}]
    /\ dtFile \in DictsOver(RaceNameSet, {DriveErr("Route not found")})
    /\ pc = "idle"
    /\ parks = EmptyDict /\ drive_times = EmptyDict
    /\ idx = 1 /\ updated = FALSE
    /\ threshold = CLUSTER_THRESHOLD_MILES
    /\ home_coords = {}
    /\ clusters = <<>> /\ map_markers = EmptyDict /\ report = {}
    /\ calls = {} /\ written = {}
    /\ other = IdleRun

NextRace == Next \/ Switch

SpecRace == InitRace /\ [][NextRace]_vars

\* a step of the running run, not a switch
SameRun == other'.run = other.run

====
